---------------------------- MODULE Spec2Model ----------------------------
(***************************************************************************)
(* Round-progression and scoring engine of the quiz backend                *)
(* (src/Quiz/views.py).  A request handler is a sequence of steps, one per *)
(* database access: the steps of two handler threads interleave freely,    *)
(* because the views take no lock and open no transaction.                 *)
(***************************************************************************)
EXTENDS Integers, Sequences, FiniteSets, TLC

(* ------------------------------ bounds --------------------------------- *)
\* the wall clock runs over 0..MaxTime
MaxTime == 4
\* rounds are numbered FirstRound..NumRounds
NumRounds == 2
\* clues have the ids 1..NumClues; tokens the ids 1..MaxTokens
NumClues == 1
MaxTokens == 4
\* the standings are computed over scores up to MaxWins * Reward and submit
\* times 0..MaxSubmit
MaxWins == 3
MaxSubmit == 2
\* the centre point is computed over tables of up to MaxCentreClues clues,
\* and its division keeps Precision decimal places
MaxCentreClues == 3
Precision == 3

\* Player.roundNo of a fresh record (the model default of Player.roundNo)
FirstRound == 1
\* the reward of a correct round answer
Reward == 10

Procs == {1, 2}
Answers == 1..2
Rounds == FirstRound..NumRounds
ClueIds == 1..NumClues

VARIABLES
    now,      \* timezone.now()
    dur,      \* duration.objects.all().first(), or NoDur
    rounds,   \* Round table: round_number -> expected answer
    clues,    \* Clue table: pk -> [round, answer, pos]
    users,    \* User table: the usernames (= emails)
    player,   \* Player table: name -> row
    tokens,   \* AuthToken table: set of [user, id]
    nextTok,  \* the next fresh token id
    req       \* per handler thread: the request it serves and its locals

vars == <<now, dur, rounds, clues, users, player, tokens, nextTok, req>>

(* ------------------------------ tables --------------------------------- *)
NoDur == [none |-> TRUE]

Durations ==
    [start_time : {1}, end_time : {MaxTime - 1},
     max_question : {NumRounds - 1, NumRounds},
     leaderboard_freeze : BOOLEAN, leaderboard_hide : BOOLEAN]

NoRow == [roundNo |-> 0, score |-> 0, solved |-> {}, submit_time |-> 0,
          isStaff |-> FALSE]

\* the row Player.objects.create makes at registration
NewRow(tm) == [roundNo |-> FirstRound, score |-> 0, solved |-> {},
               submit_time |-> tm, isStaff |-> FALSE]

\* a handler thread that serves nothing
NoReq == [op |-> "none", pc |-> "done", user |-> "none", answer |-> 0,
          clue |-> 0, pre |-> NoRow, loc |-> NoRow, status |-> 0,
          resp |-> <<>>]

(* --------------------------- helper functions -------------------------- *)
\* Round.checkAnswer / Clue.checkAnswer
checkAnswer(expected, answer) == expected = answer

\* Player.putClues
putClues(row, pk) == [row EXCEPT !.solved = @ \cup {pk}]

\* Player.checkClue
checkClue(row, pk) == pk \in row.solved

\* check_duration with the ends of the window counted as inside it
check_durationInclusive(username, tm) ==
    IF dur = NoDur THEN FALSE
    ELSE IF username \notin DOMAIN player THEN TRUE
    ELSE IF player[username].isStaff THEN FALSE
    ELSE IF tm >= dur.start_time /\ tm <= dur.end_time THEN FALSE
    ELSE TRUE

\* check_duration that turns everybody away when there is no policy record
check_durationClosedByDefault(username, tm) ==
    IF dur = NoDur THEN TRUE
    ELSE IF username \notin DOMAIN player THEN TRUE
    ELSE IF player[username].isStaff THEN FALSE
    ELSE IF tm > dur.start_time /\ tm < dur.end_time THEN FALSE
    ELSE TRUE

\* check_duration: TRUE means the request is turned away (410)
check_duration(username, tm) ==
    IF dur = NoDur THEN FALSE
    ELSE IF username \notin DOMAIN player THEN TRUE
    ELSE IF player[username].isStaff THEN FALSE
    ELSE IF tm > dur.start_time /\ tm < dur.end_time THEN FALSE
    ELSE TRUE

\* isHidden that hides the leaderboard when there is no policy record
isHiddenByDefault == IF dur # NoDur THEN dur.leaderboard_hide ELSE TRUE

isHidden == IF dur # NoDur THEN dur.leaderboard_hide ELSE FALSE

verifyUser(email) == email \in DOMAIN player

\* permission_classes([IsAuthenticated]): the request carries a token of u
IsAuthenticated(u) == \E t \in tokens : t.user = u

\* Model.save(): UPDATE of every column of the row
save(tbl, name, row) == [tbl EXCEPT ![name] = row]

(* ------------------------------ requests ------------------------------- *)
\* the response is sent: what is kept of the request is the view, the user,
\* the status, the body and, of a request that succeeded, the Player row the
\* view had read (without its submit time)
Finish(p, st, row, body) ==
    req' = [req EXCEPT ![p] = [NoReq EXCEPT !.op = req[p].op,
                                            !.user = req[p].user,
                                            !.status = st,
                                            !.pre = [row EXCEPT
                                                       !.submit_time = 0],
                                            !.resp = body]]

\* the entry of the four game views: check_duration, then 410 or the body
Enter(p, op, u, ans, c) ==
    /\ req[p].pc = "done"
    /\ IsAuthenticated(u)
    /\ LET r == [NoReq EXCEPT !.op = op, !.user = u, !.answer = ans,
                              !.clue = c]
       IN  IF check_duration(u, now)
           THEN req' = [req EXCEPT ![p] = [NoReq EXCEPT !.op = op, !.user = u,
                                                        !.status = 410]]
           ELSE req' = [req EXCEPT ![p] = [r EXCEPT !.pc = "load"]]
    /\ UNCHANGED <<now, dur, rounds, clues, users, player, tokens, nextTok>>

(* ----------------------------- checkRound ------------------------------ *)
\* RoundCredit that rewards whatever the freeze flag says
RoundCreditAlways(row, tm) ==
    [row EXCEPT !.score = @ + Reward, !.roundNo = @ + 1, !.submit_time = tm]

\* RoundCredit whose reward grows with the round answered
RoundCreditPerRound(row, tm) ==
    [row EXCEPT !.score = IF ~(dur # NoDur /\ dur.leaderboard_freeze)
                          THEN @ + Reward * row.roundNo ELSE @,
                !.roundNo = @ + 1,
                !.submit_time = tm]

\* lines 251-256: the score, the round and the submit time of the local object
RoundCredit(row, tm) ==
    [row EXCEPT !.score = IF ~(dur # NoDur /\ dur.leaderboard_freeze)
                          THEN @ + Reward ELSE @,
                !.roundNo = @ + 1,
                !.submit_time = tm]

checkRoundEnter(p) ==
    \E u \in users, ans \in Answers : Enter(p, "checkRound", u, ans, 0)

\* checkRoundLoad that stamps the submit time before it compares the answer
checkRoundLoadStamped(p) ==
    /\ req[p].pc = "load" /\ req[p].op = "checkRound"
    /\ LET u == req[p].user IN
       IF u \notin DOMAIN player
       THEN Finish(p, 404, NoRow, <<>>) /\ UNCHANGED player
       ELSE LET row == player[u] IN
            IF row.roundNo \notin DOMAIN rounds
            THEN Finish(p, 404, NoRow, <<>>) /\ UNCHANGED player
            ELSE IF checkAnswer(rounds[row.roundNo], req[p].answer)
            THEN /\ req' = [req EXCEPT ![p].pc = "credit",
                                       ![p].pre = row, ![p].loc = row]
                 /\ UNCHANGED player
            ELSE /\ Finish(p, 500, NoRow, <<>>)
                 /\ player' = save(player, u, [row EXCEPT !.submit_time = now])
    /\ UNCHANGED <<now, dur, rounds, clues, users, tokens, nextTok>>

\* lines 247-250: read the player and the round, compare the answer
checkRoundLoad(p) ==
    /\ req[p].pc = "load" /\ req[p].op = "checkRound"
    /\ LET u == req[p].user IN
       IF u \notin DOMAIN player THEN Finish(p, 404, NoRow, <<>>)
       ELSE LET row == player[u] IN
            IF row.roundNo \notin DOMAIN rounds
            THEN Finish(p, 404, NoRow, <<>>)
            ELSE IF checkAnswer(rounds[row.roundNo], req[p].answer)
            THEN req' = [req EXCEPT ![p].pc = "credit",
                                    ![p].pre = row, ![p].loc = row]
            ELSE Finish(p, 500, NoRow, <<>>)
    /\ UNCHANGED <<now, dur, rounds, clues, users, player, tokens, nextTok>>

checkRoundCredit(p) ==
    /\ req[p].pc = "credit"
    /\ req' = [req EXCEPT ![p].pc = "save",
                          ![p].loc = RoundCredit(req[p].loc, now)]
    /\ UNCHANGED <<now, dur, rounds, clues, users, player, tokens, nextTok>>

\* checkRoundSave that adds the credit to the stored row (an UPDATE with
\* F() expressions) instead of writing the local object
checkRoundSaveAdding(p) ==
    /\ req[p].pc = "save" /\ req[p].op = "checkRound"
    /\ player' = [player EXCEPT
           ![req[p].user].score = @ + (req[p].loc.score - req[p].pre.score),
           ![req[p].user].roundNo = @ + 1,
           ![req[p].user].submit_time = req[p].loc.submit_time]
    /\ Finish(p, 200, req[p].pre, <<>>)
    /\ UNCHANGED <<now, dur, rounds, clues, users, tokens, nextTok>>

\* line 257: player.save()
checkRoundSave(p) ==
    /\ req[p].pc = "save" /\ req[p].op = "checkRound"
    /\ player' = save(player, req[p].user, req[p].loc)
    /\ Finish(p, 200, req[p].pre, <<>>)
    /\ UNCHANGED <<now, dur, rounds, clues, users, tokens, nextTok>>

(* ------------------------------- putClue ------------------------------- *)
\* clue id 0 is the id of no clue
putClueEnter(p) ==
    \E u \in users, ans \in Answers, c \in {0} \cup ClueIds :
        Enter(p, "putClue", u, ans, c)

\* lines 313-317: read the player and the clue, compare the answer, add the
\* clue to the local object
putClueLoad(p) ==
    /\ req[p].pc = "load" /\ req[p].op = "putClue"
    /\ LET u == req[p].user
           c == req[p].clue
       IN  IF u \notin DOMAIN player THEN Finish(p, 404, NoRow, <<>>)
           ELSE LET row == player[u] IN
                IF c \notin DOMAIN clues
                THEN Finish(p, 404, NoRow, <<>>)
                ELSE IF checkAnswer(clues[c].answer, req[p].answer)
                THEN req' = [req EXCEPT ![p].pc = "save", ![p].pre = row,
                                        ![p].loc = putClues(row, c)]
                ELSE Finish(p, 500, NoRow, <<>>)
    /\ UNCHANGED <<now, dur, rounds, clues, users, player, tokens, nextTok>>

\* putClueSave that credits the score for the clue
putClueSaveRewarding(p) ==
    /\ req[p].pc = "save" /\ req[p].op = "putClue"
    /\ player' = save(player, req[p].user,
                      [req[p].loc EXCEPT !.score = @ + Reward])
    /\ Finish(p, 200, req[p].pre, <<clues[req[p].clue].pos>>)
    /\ UNCHANGED <<now, dur, rounds, clues, users, tokens, nextTok>>

\* lines 318-319
putClueSave(p) ==
    /\ req[p].pc = "save" /\ req[p].op = "putClue"
    /\ player' = save(player, req[p].user, req[p].loc)
    /\ Finish(p, 200, req[p].pre, <<clues[req[p].clue].pos>>)
    /\ UNCHANGED <<now, dur, rounds, clues, users, tokens, nextTok>>

(* ------------------------------ centrePoint --------------------------- *)
\* a coordinate of the centre is a decimal number, held as the integer
\* Scale times its value
Scale == 10 ^ Precision

\* Decimal division: the quotient n / d to the nearest kept place, a tie to
\* the even neighbour
RoundDiv(n, d) ==
    LET q == n \div d
        r == n % d
    IN  IF 2 * r < d THEN q
        ELSE IF 2 * r > d THEN q + 1
        ELSE IF q % 2 = 0 THEN q ELSE q + 1

\* Clue.objects.filter(round=round_obj)
CluesOf(cl, rnd) == {c \in DOMAIN cl : cl[c].round = rnd}

\* lines 105-110: the sum of coordinate k over the clues S
RECURSIVE SumPos(_, _, _)
SumPos(cl, S, k) ==
    IF S = {} THEN 0
    ELSE LET c == CHOOSE x \in S : TRUE
         IN  cl[c].pos[k] + SumPos(cl, S \ {c}, k)

\* centrePoint that divides by the number of all clues, not the round's
centrePointAllClues(cl, rnd) ==
    LET S == CluesOf(cl, rnd) IN
    IF S = {} THEN <<0, 0>>
    ELSE <<RoundDiv(Scale * SumPos(cl, S, 1), Cardinality(DOMAIN cl)),
           RoundDiv(Scale * SumPos(cl, S, 2), Cardinality(DOMAIN cl))>>

\* lines 100-113
centrePoint(cl, rnd) ==
    LET S == CluesOf(cl, rnd) IN
    IF S = {} THEN <<0, 0>>
    ELSE <<RoundDiv(Scale * SumPos(cl, S, 1), Cardinality(S)),
           RoundDiv(Scale * SumPos(cl, S, 2), Cardinality(S))>>

(* ------------------------------- getRound ------------------------------ *)
\* lines 233-237: the round and its centre
RoundBody(cl, row) == <<row.roundNo, centrePoint(cl, row.roundNo)>>

getRoundEnter(p) == \E u \in users : Enter(p, "getRound", u, 0, 0)

\* getRoundBody whose ceiling is reached at max_question itself
getRoundBodyInclusive(p) ==
    /\ req[p].pc = "load" /\ req[p].op = "getRound"
    /\ LET u == req[p].user IN
       IF u \notin DOMAIN player THEN Finish(p, 404, NoRow, <<>>)
       ELSE LET row == player[u] IN
            IF row.roundNo \notin DOMAIN rounds
            THEN Finish(p, 404, NoRow, <<>>)
            ELSE IF dur # NoDur /\ row.roundNo >= dur.max_question
            THEN Finish(p, 404, NoRow, <<>>)
            ELSE Finish(p, 200, row, RoundBody(clues, row))
    /\ UNCHANGED <<now, dur, rounds, clues, users, player, tokens, nextTok>>

\* lines 225-239
getRoundBody(p) ==
    /\ req[p].pc = "load" /\ req[p].op = "getRound"
    /\ LET u == req[p].user IN
       IF u \notin DOMAIN player THEN Finish(p, 404, NoRow, <<>>)
       ELSE LET row == player[u] IN
            IF row.roundNo \notin DOMAIN rounds
            THEN Finish(p, 404, NoRow, <<>>)
            ELSE IF dur # NoDur /\ row.roundNo > dur.max_question
            THEN Finish(p, 404, NoRow, <<>>)
            ELSE Finish(p, 200, row, RoundBody(clues, row))
    /\ UNCHANGED <<now, dur, rounds, clues, users, player, tokens, nextTok>>

(* ------------------------------- getClue ------------------------------- *)
getClueEnter(p) == \E u \in users : Enter(p, "getClue", u, 0, 0)

\* lines 296-302: one item per clue of the round, in pk order
\* ClueItems that gives the position of every clue
RECURSIVE ClueItemsRevealing(_, _, _, _)
ClueItemsRevealing(cl, row, rnd, c) ==
    IF c \notin DOMAIN cl THEN <<>>
    ELSE IF cl[c].round # rnd THEN ClueItemsRevealing(cl, row, rnd, c + 1)
    ELSE LET item == [id |-> c, solved |-> checkClue(row, c),
                      position |-> <<cl[c].pos>>]
         IN  <<item>> \o ClueItemsRevealing(cl, row, rnd, c + 1)

RECURSIVE ClueItems(_, _, _, _)
ClueItems(cl, row, rnd, c) ==
    IF c \notin DOMAIN cl THEN <<>>
    ELSE IF cl[c].round # rnd THEN ClueItems(cl, row, rnd, c + 1)
    ELSE LET is_solved == checkClue(row, c)
             item == [id |-> c, solved |-> is_solved,
                      position |-> IF is_solved THEN <<cl[c].pos>>
                                   ELSE <<>>]
         IN  <<item>> \o ClueItems(cl, row, rnd, c + 1)

\* lines 291-305
getClueBody(p) ==
    /\ req[p].pc = "load" /\ req[p].op = "getClue"
    /\ LET u == req[p].user IN
       IF u \notin DOMAIN player THEN Finish(p, 404, NoRow, <<>>)
       ELSE LET row == player[u] IN
            IF row.roundNo \notin DOMAIN rounds
            THEN Finish(p, 404, NoRow, <<>>)
            ELSE Finish(p, 200, row, ClueItems(clues, row, row.roundNo, 1))
    /\ UNCHANGED <<now, dur, rounds, clues, users, player, tokens, nextTok>>

(* ------------------------------ leaderboard ---------------------------- *)
\* Player.objects.filter(isStaff=False)
NonStaff(tbl) == {n \in DOMAIN tbl : ~tbl[n].isStaff}

\* Before under order_by("-score", "-submit_time")
BeforeLatestFirst(tbl, a, b) ==
    \/ tbl[a].score > tbl[b].score
    \/ tbl[a].score = tbl[b].score /\ tbl[a].submit_time > tbl[b].submit_time

\* a sorts strictly before b under order_by("-score", "submit_time")
Before(tbl, a, b) ==
    \/ tbl[a].score > tbl[b].score
    \/ tbl[a].score = tbl[b].score /\ tbl[a].submit_time < tbl[b].submit_time

\* the row orders the database may return for the query: rows that agree on
\* both sort keys come in any order
OrderBy(tbl, S) ==
    {s \in [1..Cardinality(S) -> S] :
        /\ \A i, j \in 1..Cardinality(S) : i # j => s[i] # s[j]
        /\ \A i, j \in 1..Cardinality(S) : i < j => ~Before(tbl, s[j], s[i])}

\* lines 136-143: enumerate(players, 1)
Standings(tbl, ord) ==
    [i \in 1..Len(ord) |-> [name |-> ord[i], rank |-> i,
                            score |-> tbl[ord[i]].score]]

\* lines 131-144; the view is open to anyone
leaderboard(p) ==
    /\ req[p].pc = "done"
    /\ IF isHidden
       THEN req' = [req EXCEPT ![p] = [NoReq EXCEPT !.op = "leaderboard",
                                       !.status = 203]]
       ELSE \E ord \in OrderBy(player, NonStaff(player)) :
              req' = [req EXCEPT ![p] =
                        [NoReq EXCEPT !.op = "leaderboard",
                                      !.status = 200,
                                      !.resp = Standings(player, ord)]]
    /\ UNCHANGED <<now, dur, rounds, clues, users, player, tokens, nextTok>>

(* ------------------------------ getuserscore --------------------------- *)
\* RankIn under enumerate(all_players), which counts from 0
RankInFromZero(ord, name) ==
    IF \E i \in 1..Len(ord) : ord[i] = name
    THEN (CHOOSE i \in 1..Len(ord) : ord[i] = name) - 1
    ELSE 0

\* lines 270-274: the place of the player in the ordered rows, 0 when absent
RankIn(ord, name) ==
    IF \E i \in 1..Len(ord) : ord[i] = name
    THEN CHOOSE i \in 1..Len(ord) : ord[i] = name
    ELSE 0

\* line 267: read the player of the request; no window gate in this view
getuserscoreEnter(p) ==
    /\ req[p].pc = "done"
    /\ \E u \in users :
         /\ IsAuthenticated(u)
         /\ IF u \notin DOMAIN player
            THEN req' = [req EXCEPT ![p] = [NoReq EXCEPT
                            !.op = "getuserscore", !.user = u, !.status = 404]]
            ELSE req' = [req EXCEPT ![p] = [NoReq EXCEPT
                            !.op = "getuserscore", !.user = u, !.pc = "load",
                            !.pre = player[u], !.loc = player[u]]]
    /\ UNCHANGED <<now, dur, rounds, clues, users, player, tokens, nextTok>>

\* lines 268-282: the ordered query, the rank, the response
getuserscoreRank(p) ==
    /\ req[p].pc = "load" /\ req[p].op = "getuserscore"
    /\ \E ord \in OrderBy(player, NonStaff(player)) :
         Finish(p, 200, req[p].pre,
                <<req[p].pre.score, RankIn(ord, req[p].user)>>)
    /\ UNCHANGED <<now, dur, rounds, clues, users, player, tokens, nextTok>>

(* --------------------------- Register and Login ------------------------ *)
\* the identities the identity verifier vouches for
Emails == {"a"}

TokensOf(u) == {t \in tokens : t.user = u}

\* token ids are bounded: a flow starts only if a fresh id is left for it
IdLeft ==
    nextTok + Cardinality({q \in Procs : req[q].pc \in {"delete", "create"}})
        <= MaxTokens

\* Login.post lines 198-207 (the second definition of post is the one the
\* class keeps): the reads up to the look-up of an existing token
LoginRead(p, op, email) ==
    IF verifyUser(email)
    THEN req' = [req EXCEPT ![p] = [NoReq EXCEPT
                    !.op = op, !.user = email,
                    !.pre = player[email], !.loc = player[email],
                    !.pc = IF TokensOf(email) = {} THEN "create"
                           ELSE "delete"]]
    ELSE req' = [req EXCEPT ![p] = [NoReq EXCEPT !.op = op, !.user = email,
                                                 !.status = 500]]

LoginEnter(p) ==
    /\ req[p].pc = "done"
    /\ IdLeft
    /\ \E email \in Emails : LoginRead(p, "Login", email)
    /\ UNCHANGED <<now, dur, rounds, clues, users, player, tokens, nextTok>>

\* LoginDelete that deletes nothing
LoginDeleteNothing(p) ==
    /\ req[p].pc = "delete"
    /\ req' = [req EXCEPT ![p].pc = "create"]
    /\ UNCHANGED <<now, dur, rounds, clues, users, player, tokens, nextTok>>

\* line 214: AuthToken.objects.filter(user=user).delete()
LoginDelete(p) ==
    /\ req[p].pc = "delete"
    /\ tokens' = tokens \ TokensOf(req[p].user)
    /\ req' = [req EXCEPT ![p].pc = "create"]
    /\ UNCHANGED <<now, dur, rounds, clues, users, player, nextTok>>

\* lines 209 and 215-218: AuthToken.objects.create(user), the response
LoginCreate(p) ==
    /\ req[p].pc = "create"
    /\ tokens' = tokens \cup {[user |-> req[p].user, id |-> nextTok]}
    /\ nextTok' = nextTok + 1
    /\ Finish(p, 200, req[p].pre, <<nextTok>>)
    /\ UNCHANGED <<now, dur, rounds, clues, users, player>>

\* Register.post line 165: the method is defined nowhere in the views; its
\* comment and the design give it the Login logic
handle_existing_user(p, email) == LoginRead(p, "Register", email)

\* Register.post lines 153-162 for a new identity: the User, the Player and
\* the first token
RegisterNew(p, email) ==
    /\ users' = users \cup {email}
    /\ player' = (email :> NewRow(now)) @@ player
    /\ tokens' = tokens \cup {[user |-> email, id |-> nextTok]}
    /\ nextTok' = nextTok + 1
    /\ req' = [req EXCEPT ![p] = [NoReq EXCEPT !.op = "Register",
                                               !.user = email, !.status = 200,
                                               !.resp = <<nextTok>>]]

\* Register that does not look for an existing player
RegisterUnchecked(p) ==
    /\ req[p].pc = "done"
    /\ IdLeft
    /\ \E email \in Emails : RegisterNew(p, email)
    /\ UNCHANGED <<now, dur, rounds, clues>>

\* Register.post lines 150-165
Register(p) ==
    /\ req[p].pc = "done"
    /\ IdLeft
    /\ \E email \in Emails :
         IF verifyUser(email) = FALSE
         THEN RegisterNew(p, email)
         ELSE /\ handle_existing_user(p, email)
              /\ UNCHANGED <<users, player, tokens, nextTok>>
    /\ UNCHANGED <<now, dur, rounds, clues>>

(* -------------------------------- clock -------------------------------- *)
Tick ==
    /\ now < MaxTime
    /\ now' = now + 1
    /\ UNCHANGED <<dur, rounds, clues, users, player, tokens, nextTok, req>>

(* --------------------------- specifications ---------------------------- *)
\* the tables an administrator maintains, and no request served yet
TablesInit ==
    /\ dur \in {NoDur} \cup Durations
    /\ rounds \in {t \in [Rounds -> Answers] : t[FirstRound] = 1}
    /\ clues = [c \in ClueIds |-> [round |-> FirstRound, answer |-> c,
                                   pos |-> <<c, 2 * c>>]]
    /\ req = [p \in Procs |-> NoReq]

\* "a" a player, staff or not; "g" a user account with no Player row
SeqInit ==
    /\ TablesInit
    /\ now = 0
    /\ users = {"a", "g"}
    /\ \E staff \in BOOLEAN :
         player = [n \in {"a"} |-> [NewRow(0) EXCEPT !.isStaff = staff]]
    /\ tokens = {[user |-> "a", id |-> 1], [user |-> "g", id |-> 2]}
    /\ nextTok = 3

SeqNext ==
    \/ checkRoundEnter(1) \/ checkRoundLoad(1) \/ checkRoundCredit(1)
    \/ checkRoundSave(1)
    \/ putClueEnter(1) \/ putClueLoad(1) \/ putClueSave(1)
    \/ getRoundEnter(1) \/ getRoundBody(1)
    \/ getClueEnter(1) \/ getClueBody(1)
    \/ leaderboard(1)
    \/ getuserscoreEnter(1) \/ getuserscoreRank(1)
    \/ Tick

\* one handler thread: the requests are served one after another
SeqSpec == SeqInit /\ [][SeqNext]_vars

\* nobody has registered yet; "g" is a user account with no Player row
AuthInit ==
    /\ TablesInit
    /\ now = 0
    /\ users = {"g"}
    /\ player = [n \in {} |-> NoRow]
    /\ tokens = {[user |-> "g", id |-> 1]}
    /\ nextTok = 2

AuthNext ==
    \/ SeqNext
    \/ Register(1) \/ LoginEnter(1) \/ LoginDelete(1) \/ LoginCreate(1)

AuthSpec == AuthInit /\ [][AuthNext]_vars

\* two handler threads serve round and clue answers concurrently, racing
\* within one reading of the clock
ConcNext ==
    \E p \in Procs :
        \/ checkRoundEnter(p) \/ checkRoundLoad(p) \/ checkRoundCredit(p)
        \/ checkRoundSave(p)
        \/ putClueEnter(p) \/ putClueLoad(p) \/ putClueSave(p)

\* one registered player, who is not staff, at a time inside the window; the
\* policy fields no round or clue view reads are fixed
ConcInit ==
    /\ TablesInit
    /\ now = 2
    /\ dur # NoDur => dur.max_question = NumRounds /\ ~dur.leaderboard_hide
    /\ users = {"a"}
    /\ player = [n \in {"a"} |-> NewRow(0)]
    /\ tokens = {[user |-> "a", id |-> 1]}
    /\ nextTok = 2

ConcSpec == ConcInit /\ [][ConcNext]_vars

\* two handler threads serve Register and Login concurrently
LoginNext ==
    \E p \in Procs :
        Register(p) \/ LoginEnter(p) \/ LoginDelete(p) \/ LoginCreate(p)

LoginSpec == AuthInit /\ [][LoginNext]_vars

\* the standings over any Player table: three players with any scores,
\* submit times and staff flags
LbNames == {"a", "b", "c"}

LbInit ==
    /\ now = MaxSubmit
    /\ dur \in {NoDur} \cup {d \in Durations : /\ d.max_question = NumRounds
                                               /\ ~d.leaderboard_freeze}
    /\ rounds = [r \in FirstRound..MaxWins |-> 1]
    /\ clues = [c \in ClueIds |-> [round |-> FirstRound, answer |-> c,
                                   pos |-> <<c, 2 * c>>]]
    /\ users = LbNames
    /\ \E w \in [LbNames -> 0..MaxWins], t \in [LbNames -> 0..MaxSubmit],
          f \in [LbNames -> BOOLEAN] :
         player = [n \in LbNames |->
                     [roundNo |-> FirstRound + w[n], score |-> Reward * w[n],
                      solved |-> {}, submit_time |-> t[n], isStaff |-> f[n]]]
    /\ tokens = {[user |-> "a", id |-> 1], [user |-> "b", id |-> 2],
                 [user |-> "c", id |-> 3]}
    /\ nextTok = 4
    /\ req = [p \in Procs |-> NoReq]

LbNext == leaderboard(1) \/ getuserscoreEnter(1) \/ getuserscoreRank(1)

LbSpec == LbInit /\ [][LbNext]_vars

\* the centre point over any clue table: up to MaxCentreClues clues, each of
\* any round and at any of four places, and a player at any round
CentrePlaces == {<<0, 0>>, <<2, 4>>, <<-1, 1>>, <<4, -1>>}

CentreTables ==
    UNION {[1..k -> [round : Rounds, answer : {1}, pos : CentrePlaces]] :
              k \in 0..MaxCentreClues}

CentreInit ==
    /\ now = 0
    /\ dur = NoDur
    /\ rounds = [r \in Rounds |-> 1]
    /\ clues \in CentreTables
    /\ users = {"a"}
    /\ \E r \in Rounds :
         player = [n \in {"a"} |->
                     [NewRow(0) EXCEPT !.roundNo = r,
                                       !.score = Reward * (r - FirstRound)]]
    /\ tokens = {[user |-> "a", id |-> 1]}
    /\ nextTok = 2
    /\ req = [p \in Procs |-> NoReq]

CentreNext == getRoundEnter(1) \/ getRoundBody(1)

CentreSpec == CentreInit /\ [][CentreNext]_vars

\* two players that are not staff answer rounds one request at a time, under
\* a policy record whose window holds every time but the first and the last
FreezeNames == {"a", "b"}

FreezeInit ==
    /\ now = 0
    /\ \E f \in BOOLEAN :
         dur = [start_time |-> 0, end_time |-> MaxTime,
                max_question |-> NumRounds, leaderboard_freeze |-> f,
                leaderboard_hide |-> FALSE]
    /\ rounds = [r \in Rounds |-> 1]
    /\ clues = [c \in ClueIds |-> [round |-> FirstRound, answer |-> c,
                                   pos |-> <<c, 2 * c>>]]
    /\ users = FreezeNames
    /\ player = [n \in FreezeNames |-> NewRow(0)]
    /\ tokens = {[user |-> "a", id |-> 1], [user |-> "b", id |-> 2]}
    /\ nextTok = 3
    /\ req = [p \in Procs |-> NoReq]

FreezeNext ==
    \/ checkRoundEnter(1) \/ checkRoundLoad(1)
    \/ checkRoundCredit(1) \/ checkRoundSave(1)
    \/ Tick

FreezeSpec == FreezeInit /\ [][FreezeNext]_vars

(* ------------------------------ properties ----------------------------- *)
GameOps == {"getRound", "checkRound", "getClue", "putClue"}

Frozen == dur # NoDur /\ dur.leaderboard_freeze

\* thread p takes the entry step of a game view
GateStep(p) ==
    req[p].pc = "done" /\ req'[p] # req[p] /\ req'[p].op \in GameOps

\* threads p and q have both answered 200 to a round answer of the same
\* player, each having read the player at the same round
SameRoundPair(p, q) ==
    /\ p # q
    /\ req[p].pc = "done" /\ req[q].pc = "done"
    /\ req[p].op = "checkRound" /\ req[q].op = "checkRound"
    /\ req[p].status = 200 /\ req[q].status = 200
    /\ req[p].user = req[q].user
    /\ req[p].pre.roundNo = req[q].pre.roundNo

\* C1: two concurrent correct round answers of one player, both read at
\* round r, leave the player at round r + 1 with one reward (none when the
\* leaderboard is frozen)
C1_ExactlyOnce ==
    \A p, q \in Procs :
        SameRoundPair(p, q) =>
            LET row == player[req[p].user] IN
            /\ row.roundNo = req[p].pre.roundNo + 1
            /\ row.score = req[p].pre.score + (IF Frozen THEN 0 ELSE 10)
            /\ row.score = req[q].pre.score + (IF Frozen THEN 0 ELSE 10)

C1_Witness ==
    /\ SameRoundPair(1, 2)
    /\ ~Frozen
    /\ req[1].pre.roundNo = FirstRound
    /\ player["a"].roundNo = FirstRound + 1
    /\ player["a"].score = 10

\* C2: no step removes a player, lowers a roundNo or a score, or takes a clue
\* out of a solved set
C2_Monotone ==
    [][\A n \in DOMAIN player :
          /\ n \in DOMAIN player'
          /\ player'[n].roundNo >= player[n].roundNo
          /\ player'[n].score >= player[n].score
          /\ player[n].solved \subseteq player'[n].solved]_vars

C2_Witness ==
    /\ "a" \in DOMAIN player
    /\ player["a"].roundNo > FirstRound
    /\ player["a"].score > 0
    /\ player["a"].solved # {}
    /\ req[1].op = "Register" /\ req[1].pc = "done" /\ req[1].status = 200
    /\ Cardinality(tokens) > 1 /\ nextTok > 3

\* the time of the request is at or outside the ends of the window
OutsideWindow == now <= dur.start_time \/ now >= dur.end_time

\* C3: with a policy record, a game view turns a player away with 410 exactly
\* when the player is not staff and the time is not strictly inside the
\* window; a 410 is answered at the entry only and changes no player
C3_WindowGate ==
    [][\A p \in Procs :
          /\ (GateStep(p) /\ dur # NoDur /\ req'[p].user \in DOMAIN player) =>
                /\ (req'[p].status = 410) <=>
                       (~player[req'[p].user].isStaff /\ OutsideWindow)
                /\ req'[p].status = 410 => player' = player
          /\ (req'[p] # req[p] /\ req'[p].status = 410) =>
                GateStep(p) /\ dur # NoDur]_vars

C3_Witness ==
    /\ req[1].op = "checkRound" /\ req[1].status = 410
    /\ req[1].user = "a" /\ ~player["a"].isStaff
    /\ dur # NoDur /\ now = dur.end_time
    /\ player["a"].roundNo = FirstRound + 1

\* C4: when the player of the request cannot be read while the policy is
\* consulted, the request is not turned away with 410
C4_FailOpen ==
    [][\A p \in Procs :
          (GateStep(p) /\ dur # NoDur /\ req'[p].user \notin DOMAIN player)
              => req'[p].status # 410]_vars

\* no Register or Login flow is between its steps
NoFlow == \A p \in Procs : req[p].pc \notin {"delete", "create"}

\* C5: served one after another, the Register and Login flows leave every
\* registered identity with exactly one token, and a completed flow leaves
\* the identity with the one token it has just issued
C5_SingleToken ==
    /\ [](NoFlow => \A e \in DOMAIN player : Cardinality(TokensOf(e)) = 1)
    /\ [][\A p \in Procs :
            (/\ req'[p] # req[p]
             /\ req'[p].op \in {"Register", "Login"}
             /\ req'[p].pc = "done" /\ req'[p].status = 200) =>
                /\ {t \in tokens' : t.user = req'[p].user} =
                       {[user |-> req'[p].user, id |-> nextTok]}
                /\ \A t \in tokens : t.id # nextTok]_vars

C5_Witness ==
    /\ req[1].op = "Login" /\ req[1].pc = "done" /\ req[1].status = 200
    /\ TokensOf("a") = {[user |-> "a", id |-> 3]}

\* C6: once two concurrent logins of an identity have both completed, the
\* identity has no more than one token
C6_AtomicReissue ==
    \A p, q \in Procs :
        (/\ p # q
         /\ req[p].op = "Login" /\ req[q].op = "Login"
         /\ req[p].pc = "done" /\ req[q].pc = "done"
         /\ req[p].status = 200 /\ req[q].status = 200
         /\ req[p].user = req[q].user)
            => Cardinality(TokensOf(req[p].user)) <= 1

\* thread p takes the step that saves a correct round answer
RoundSaved(p) ==
    /\ req[p].op = "checkRound" /\ req[p].pc = "save"
    /\ req'[p].pc = "done" /\ req'[p].status = 200

\* C7: a round answer that matches goes on to be saved; the save adds 1 to
\* roundNo, sets the submit time to the time read while crediting, and adds
\* 10 to the score unless the policy record has the freeze flag
C7_Freeze ==
    [][\A p \in Procs :
          /\ (/\ req[p].op = "checkRound" /\ req[p].pc = "load"
              /\ req'[p] # req[p]
              /\ req[p].user \in DOMAIN player
              /\ player[req[p].user].roundNo \in DOMAIN rounds
              /\ rounds[player[req[p].user].roundNo] = req[p].answer)
                 => req'[p].pc = "credit"
          /\ (req[p].pc = "credit" /\ req'[p] # req[p])
                 => req'[p].pc = "save" /\ req'[p].loc.submit_time = now
          /\ RoundSaved(p) =>
                LET old == player[req[p].user]
                    new == player'[req[p].user]
                IN  /\ new.roundNo = old.roundNo + 1
                    /\ new.submit_time = req[p].loc.submit_time
                    /\ new.score = IF Frozen THEN old.score
                                   ELSE old.score + 10
                    /\ new.solved = old.solved
                    /\ new.isStaff = old.isStaff]_vars

C7_Witness ==
    /\ req[1].op = "checkRound" /\ req[1].pc = "done" /\ req[1].status = 200
    /\ Frozen
    /\ player["a"].roundNo = FirstRound + 1
    /\ player["a"].score = 0
    /\ player["a"].submit_time = 2

\* thread p compares an answer that does not match
WrongAnswerStep(p) ==
    /\ req[p].pc = "load" /\ req'[p] # req[p]
    /\ req[p].user \in DOMAIN player
    /\ \/ /\ req[p].op = "checkRound"
          /\ player[req[p].user].roundNo \in DOMAIN rounds
          /\ rounds[player[req[p].user].roundNo] # req[p].answer
       \/ /\ req[p].op = "putClue"
          /\ req[p].clue \in DOMAIN clues
          /\ clues[req[p].clue].answer # req[p].answer

\* C8: a round or clue answer that does not match is answered 500 and no
\* step of the request changes a player; 500 is answered in no other case
C8_WrongAnswer ==
    [][\A p \in Procs :
          /\ WrongAnswerStep(p) =>
                /\ req'[p].pc = "done" /\ req'[p].status = 500
                /\ player' = player
          /\ (/\ req'[p] # req[p] /\ req'[p].status = 500
              /\ req'[p].op \in GameOps) => WrongAnswerStep(p)
          /\ GateStep(p) => player' = player]_vars

C8_Witness ==
    /\ req[1].op = "putClue" /\ req[1].pc = "done" /\ req[1].status = 500
    /\ player["a"].solved = {}
    /\ player["a"].roundNo = FirstRound + 1

\* the standings thread p has answered
Shown(p) ==
    req[p].op = "leaderboard" /\ req[p].pc = "done" /\ req[p].status = 200

\* C9: the standings shown list exactly the players that are not staff, each
\* once, by falling score and, at equal scores, rising submit time, with the
\* ranks 1, 2, 3, ... in that order
C9_Standings ==
    \A p \in Procs : Shown(p) =>
        LET st == req[p].resp IN
        /\ Len(st) = Cardinality(NonStaff(player))
        /\ {st[i].name : i \in 1..Len(st)} = NonStaff(player)
        /\ \A i \in 1..Len(st) :
              /\ st[i].rank = i
              /\ st[i].score = player[st[i].name].score
        /\ \A i, j \in 1..Len(st) : i < j =>
              \/ player[st[i].name].score > player[st[j].name].score
              \/ /\ player[st[i].name].score = player[st[j].name].score
                 /\ player[st[i].name].submit_time
                        <= player[st[j].name].submit_time

\* a (30, submitted at 1), b (30, submitted at 0), c (20, submitted at 2)
C9_Witness ==
    /\ Shown(1)
    /\ NonStaff(player) = {"a", "b", "c"}
    /\ player["a"].score = 30 /\ player["a"].submit_time = 1
    /\ player["b"].score = 30 /\ player["b"].submit_time = 0
    /\ player["c"].score = 20 /\ player["c"].submit_time = 2
    /\ req[1].resp = <<[name |-> "b", rank |-> 1, score |-> 30],
                       [name |-> "a", rank |-> 2, score |-> 30],
                       [name |-> "c", rank |-> 3, score |-> 20]>>

\* C10: the leaderboard view answers "hidden" (203, no standings) exactly
\* when a policy record exists with the hide flag; otherwise it answers the
\* standings of all players that are not staff
C10_Hidden ==
    \A p \in Procs :
        (req[p].op = "leaderboard" /\ req[p].pc = "done") =>
            /\ (req[p].status = 203) <=>
                   (dur # NoDur /\ dur.leaderboard_hide)
            /\ req[p].status = 203 => req[p].resp = <<>>
            /\ req[p].status # 203 =>
                   /\ req[p].status = 200
                   /\ Len(req[p].resp) = Cardinality(NonStaff(player))

C10_Witness ==
    /\ req[1].op = "leaderboard" /\ req[1].status = 203
    /\ req[1].resp = <<>>
    /\ NonStaff(player) = {"a", "b", "c"}
    /\ player["a"].score = 30

\* thread p takes a step of the view op
StepOf(p, op) ==
    /\ req'[p] # req[p]
    /\ \/ req[p].pc # "done" /\ req[p].op = op
       \/ req[p].pc = "done" /\ req'[p].op = op

\* C11: a clue answer that matches is saved whether or not the clue was solved
\* before; the save answers 200 and adds the clue to the solved clues, so a
\* second matching answer leaves the players as the first left them; no step
\* of a clue answer, matching or not, changes a score or a round number
C11_ClueIdempotent ==
    [][\A p \in Procs :
          /\ (/\ req[p].op = "putClue" /\ req[p].pc = "load"
              /\ req'[p] # req[p]
              /\ req[p].user \in DOMAIN player
              /\ req[p].clue \in DOMAIN clues
              /\ clues[req[p].clue].answer = req[p].answer)
                 => req'[p].pc = "save"
          /\ (req[p].op = "putClue" /\ req[p].pc = "save"
              /\ req'[p] # req[p]) =>
                LET old == player[req[p].user]
                    new == player'[req[p].user]
                IN  /\ req'[p].pc = "done" /\ req'[p].status = 200
                    /\ new.solved = old.solved \cup {req[p].clue}
                    /\ req[p].clue \in old.solved => player' = player
          /\ StepOf(p, "putClue") =>
                /\ DOMAIN player' = DOMAIN player
                /\ \A n \in DOMAIN player :
                      /\ player'[n].score = player[n].score
                      /\ player'[n].roundNo = player[n].roundNo]_vars

\* player a answers a clue that is already among the solved clues
C11_Witness ==
    /\ req[1].op = "putClue" /\ req[1].pc = "done" /\ req[1].status = 200
    /\ req[1].user = "a" /\ req[1].resp = <<clues[1].pos>>
    /\ req[1].pre.solved = {1}
    /\ player["a"].solved = {1}

\* C12: for a registered player that passed the gate, the round view answers
\* 404 exactly when no round has the player's round number, or a policy record
\* exists and the round number is above max_question; otherwise it answers 200
\* with the round of that number; no step of the view changes the store
C12_RoundFinished ==
    [][\A p \in Procs :
          /\ (/\ req[p].op = "getRound" /\ req[p].pc = "load"
              /\ req'[p] # req[p]
              /\ req[p].user \in DOMAIN player) =>
                LET row == player[req[p].user]
                    finished ==
                        \/ row.roundNo \notin DOMAIN rounds
                        \/ dur # NoDur /\ row.roundNo > dur.max_question
                IN  /\ req'[p].pc = "done"
                    /\ finished <=> req'[p].status = 404
                    /\ ~finished =>
                          /\ req'[p].status = 200
                          /\ req'[p].resp[1] = row.roundNo
          /\ StepOf(p, "getRound") =>
                UNCHANGED <<now, dur, rounds, clues, users, player,
                            tokens, nextTok>>]_vars

\* the round of player a exists and is above max_question
C12_Witness ==
    /\ req[1].op = "getRound" /\ req[1].pc = "done" /\ req[1].status = 404
    /\ req[1].user = "a"
    /\ dur # NoDur
    /\ player["a"].roundNo \in DOMAIN rounds
    /\ player["a"].roundNo > dur.max_question

\* the places a clue may be moved to
Positions == {<<0, 0>>, <<2, 4>>, <<-1, 1>>, <<4, -1>>}

\* the clue table with clue c moved to position q
Moved(c, q) == [clues EXCEPT ![c].pos = q]

\* thread p answers a request of a registered player that has not solved
\* clue c
AnswersUnsolved(p, c) ==
    /\ req[p].pc = "load" /\ req'[p].pc = "done"
    /\ req[p].user \in DOMAIN player
    /\ c \notin player[req[p].user].solved

\* C13 as stated: no answer of the round view (its centre included), of the
\* clue list or of a clue answer that fails is another answer when a clue the
\* player has not solved is moved
C13_NoPositionFlow ==
    [][\A p \in Procs : \A c \in DOMAIN clues : \A q \in Positions :
          AnswersUnsolved(p, c) =>
             LET row == player[req[p].user] IN
             /\ (req[p].op = "getRound" /\ req'[p].status = 200) =>
                    req'[p].resp = RoundBody(Moved(c, q), row)
             /\ (req[p].op = "getClue" /\ req'[p].status = 200) =>
                    req'[p].resp = ClueItems(Moved(c, q), row, row.roundNo, 1)
             /\ req[p].op = "putClue" => req'[p].resp = <<>>]_vars

\* C13 amended: no answer of the clue list or of a clue answer that fails is
\* another answer when a clue the player has not solved is moved, and the
\* round view names the same round; the centre the round view gives is
\* computed from the positions of all clues of the round, solved or not
C13_PositionHidden ==
    [][\A p \in Procs : \A c \in DOMAIN clues : \A q \in Positions :
          AnswersUnsolved(p, c) =>
             LET row == player[req[p].user] IN
             /\ (req[p].op = "getRound" /\ req'[p].status = 200) =>
                    /\ req'[p].resp[1] = RoundBody(Moved(c, q), row)[1]
                    /\ req'[p].resp[2] = centrePoint(clues, row.roundNo)
             /\ (req[p].op = "getClue" /\ req'[p].status = 200) =>
                    req'[p].resp = ClueItems(Moved(c, q), row, row.roundNo, 1)
             /\ req[p].op = "putClue" => req'[p].resp = <<>>]_vars

\* the clue list of player a, who has not solved clue 1
C13_Witness ==
    /\ req[1].op = "getClue" /\ req[1].pc = "done" /\ req[1].status = 200
    /\ req[1].user = "a"
    /\ player["a"].solved = {}
    /\ req[1].resp = <<[id |-> 1, solved |-> FALSE, position |-> <<>>]>>

\* C14: without a policy record check_duration turns nobody away at any
\* time, no request is answered 410, the round view answers 200 whenever the
\* round of the player exists, and a saved round answer adds 10 to the score
C14_NoPolicy ==
    /\ [](dur = NoDur => \A u \in users : ~check_duration(u, now))
    /\ [][dur = NoDur => \A p \in Procs :
             /\ req'[p] # req[p] => req'[p].status # 410
             /\ GateStep(p) => req'[p].pc = "load"
             /\ (/\ req[p].op = "getRound" /\ req[p].pc = "load"
                 /\ req'[p] # req[p]
                 /\ req[p].user \in DOMAIN player
                 /\ player[req[p].user].roundNo \in DOMAIN rounds)
                    => req'[p].status = 200
             /\ RoundSaved(p) =>
                   player'[req[p].user].score =
                       player[req[p].user].score + Reward]_vars

\* without a policy record player a, not staff, is credited at the last time
C14_Witness ==
    /\ dur = NoDur /\ now = MaxTime
    /\ req[1].op = "checkRound" /\ req[1].pc = "done" /\ req[1].status = 200
    /\ req[1].user = "a" /\ ~player["a"].isStaff
    /\ player["a"].score = Reward
    /\ player["a"].submit_time = MaxTime

\* C18: once a round number is above max_question no step changes it or the
\* score, so no round number is ever above max_question + 1
C18_Ceiling ==
    [][dur # NoDur =>
          \A n \in DOMAIN player \cap DOMAIN player' :
              player[n].roundNo > dur.max_question =>
                  /\ player'[n].roundNo = player[n].roundNo
                  /\ player'[n].score = player[n].score]_vars

\* C19: every score is a multiple of 10 from 0 to 10 times the rounds the
\* player has passed, and is exactly that when the freeze flag is not set; a
\* score changes only in a step that raises the round number
C19_ScoreShape ==
    /\ [](\A n \in DOMAIN player :
              LET passed == player[n].roundNo - FirstRound IN
              /\ player[n].score % 10 = 0
              /\ player[n].score >= 0
              /\ player[n].score <= Reward * passed
              /\ ~Frozen => player[n].score = Reward * passed)
    /\ [][\A n \in DOMAIN player \cap DOMAIN player' :
              player'[n].score # player[n].score =>
                  player'[n].roundNo > player[n].roundNo]_vars

\* player a has passed two rounds without the freeze flag
C19_Witness ==
    /\ ~Frozen
    /\ player["a"].roundNo = FirstRound + 2
    /\ player["a"].score = 2 * Reward
    /\ req[1].op = "checkRound" /\ req[1].pc = "done" /\ req[1].status = 200


\* thread p has answered the score view of a player that is not staff
Ranked(p) ==
    /\ req[p].op = "getuserscore" /\ req[p].pc = "done"
    /\ req[p].status = 200
    /\ req[p].user \in NonStaff(player)

\* the players that are not staff and agree with u on score and submit time
TiedWith(u) ==
    {m \in NonStaff(player) \ {u} :
        /\ player[m].score = player[u].score
        /\ player[m].submit_time = player[u].submit_time}

\* C15 as stated: the rank the score view gives a player that is not staff
\* is at least 1 and is the rank of the player in the standings, whatever
\* order the standings query returns
C15_RankIsStanding ==
    \A p \in Procs :
        Ranked(p) =>
            /\ req[p].resp[2] >= 1
            /\ \A ord \in OrderBy(player, NonStaff(player)) :
                  req[p].resp[2] = RankIn(ord, req[p].user)

\* C15 amended: the rank the score view gives a player that is not staff is
\* at least 1: it is 1 plus the number of players sorting strictly before,
\* plus at most the number of players tied on both sort keys; for a player
\* nobody is tied with it is the rank in every standings the standings query
\* may return, and two such players have different ranks
C15_Rank ==
    \A p \in Procs :
        Ranked(p) =>
            LET u == req[p].user
                rank == req[p].resp[2]
                ahead == Cardinality({m \in NonStaff(player) :
                                         Before(player, m, u)})
            IN  /\ rank >= 1
                /\ rank >= ahead + 1
                /\ rank <= ahead + 1 + Cardinality(TiedWith(u))
                /\ TiedWith(u) = {} =>
                      /\ \A ord \in OrderBy(player, NonStaff(player)) :
                            rank = RankIn(ord, u)
                      /\ \A m \in NonStaff(player) \ {u} :
                            TiedWith(m) = {} =>
                               rank # 1 + Cardinality(
                                   {k \in NonStaff(player) :
                                       Before(player, k, m)})

\* a is second of three players, none tied with another
C15_Witness ==
    /\ Ranked(1) /\ req[1].user = "a"
    /\ NonStaff(player) = {"a", "b", "c"}
    /\ player["a"].score = 20 /\ player["b"].score = 30
    /\ player["c"].score = 20
    /\ player["a"].submit_time = 0 /\ player["c"].submit_time = 1
    /\ req[1].resp[2] = 2

\* C16: the centre the round view gives is, coordinate by coordinate, the
\* sum of the positions of the clues of the round divided by their number,
\* to the nearest kept decimal place (so the very mean whenever the mean has
\* no more places than are kept), and (0, 0) for a round without clues
C16_Centre ==
    \A p \in Procs :
        (req[p].op = "getRound" /\ req[p].pc = "done"
         /\ req[p].status = 200) =>
            LET S == {c \in DOMAIN clues : clues[c].round = req[p].resp[1]}
                n == Cardinality(S)
                centre == req[p].resp[2]
            IN  /\ n = 0 => centre = <<0, 0>>
                /\ n > 0 => \A k \in 1..2 :
                      LET off == centre[k] * n - Scale * SumPos(clues, S, k)
                      IN  2 * off <= n /\ -2 * off <= n

\* the clues of round 1 lie at (0, 0) and (2, 4): the centre is (1.0, 2.0)
C16_Witness ==
    /\ req[1].op = "getRound" /\ req[1].pc = "done" /\ req[1].status = 200
    /\ DOMAIN clues = 1..2
    /\ clues[1].round = FirstRound /\ clues[1].pos = <<0, 0>>
    /\ clues[2].round = FirstRound /\ clues[2].pos = <<2, 4>>
    /\ req[1].resp = <<FirstRound, <<Scale, 2 * Scale>>>>

\* C17: no step takes a round number or a score below the stored one, and
\* no step removes a solved clue, whatever requests of the player overlap
C17_NoLostUpdate ==
    [][\A n \in DOMAIN player \cap DOMAIN player' :
          /\ player'[n].roundNo >= player[n].roundNo
          /\ player'[n].score >= player[n].score
          /\ player[n].solved \subseteq player'[n].solved]_vars

\* C20: under the freeze flag no step turns around the order in which the
\* standings list two players that are not staff
C20_FrozenStandings ==
    [][Frozen =>
          \A a, b \in NonStaff(player) :
              Before(player, a, b) => ~Before(player', b, a)]_vars

=============================================================================
